---- MODULE Spec2Model ----
(***************************************************************************)
(* Model of ironbar's niri compositor client                               *)
(* (src/clients/compositor/niri/mod.rs and connection.rs).                 *)
(*                                                                         *)
(* One background task (the dispatch task spawned by Client::new) owns the *)
(* event-stream connection, performs the initial refresh and then one      *)
(* refresh per refresh-triggering event.  refresh_windows fetches the      *)
(* window list, diffs it against the stored list, replaces the store and   *)
(* sends the updates on a tokio broadcast channel.  subscribe() runs on    *)
(* the caller's thread, concurrently with the dispatch task.               *)
(*                                                                         *)
(* Options are sequences of length at most one: <<>> is None, <<x>> is     *)
(* Some(x).                                                                *)
(***************************************************************************)
EXTENDS Integers, Sequences, FiniteSets, TLC

VARIABLES
    store,      \* windows_as_workspaces: Arc<RwLock<Vec<IronWorkspace>>>
    hub,        \* every value sent on tx, oldest first (what _rx retains)
    subs,       \* one record per subscribe() call, in order of tx.subscribe()
    dpc,        \* position of the dispatch task
    isInit,     \* refresh_windows' is_init parameter of the running call
    newWs,      \* refresh_windows' local new_workspaces
    updates,    \* refresh_windows' local updates not yet sent
    events,     \* number of calls of event_listener() so far
    pass,       \* history: the refresh call that ran last (see NoPass)
    buf,        \* the events closure's buf: what its read_line has just done
    initial     \* history: how the initial fetch went ("pending", "ok", "failed")

vars == <<store, hub, subs, dpc, isInit, newWs, updates, events, pass, buf,
          initial>>

(***************************************************************************)
(* Bounds of the model.                                                    *)
(***************************************************************************)
\* window ids are 1..MaxId in the runs with subscribers
MaxId == 2
\* window ids are 1..MaxIdAlone in the runs of the dispatch task alone
MaxIdAlone == 3
\* the compositor reports at most MaxLen windows
MaxLen == 2
\* subscribe() is called at most MaxSubs times
MaxSubs == 2
\* event_listener() is called at most MaxEvents times (with subscribers)
MaxEvents == 2
\* event_listener() is called at most MaxPasses times (dispatch task alone)
MaxPasses == 1

\* broadcast::channel(32)
Capacity == 32

Max(a, b) == IF a >= b THEN a ELSE b

(***************************************************************************)
(* niri_ipc::Window as far as window_to_workspace reads it.                *)
(***************************************************************************)
Win(id, title, app_id, output, is_focused) ==
    [id |-> id, title |-> title, app_id |-> app_id, output |-> output,
     is_focused |-> is_focused]

\* title / app_id / output combinations the compositor reports for a window
PlainLook == [title |-> <<"A">>, app_id |-> <<"app">>, output |-> <<"M1">>]

Looks ==
    { PlainLook,
      [title |-> <<>>, app_id |-> <<"app">>, output |-> <<"M1">>],
      [title |-> <<"A">>, app_id |-> <<>>, output |-> <<>>] }

\* the lists of at most MaxLen different ids out of `ids`
IdSeqs(ids) ==
    UNION { { p \in [1..n -> ids] : \A i, j \in 1..n : i # j => p[i] # p[j] }
            : n \in 0..MaxLen }

\* Window lists the compositor can reply with: ids unique, looks drawn from
\* `looks`, at most one window focused (position f, 0 for none; always 0
\* when the keyboard focus is on no window throughout, `focus` FALSE).
WindowLists(ids, looks, focus) ==
    UNION { { [i \in 1..Len(p) |->
                 Win(p[i], l[i].title, l[i].app_id, l[i].output, i = f)]
              : l \in [1..Len(p) -> looks],
                f \in IF focus THEN 0..Len(p) ELSE {0} }
            : p \in IdSeqs(ids) }

(***************************************************************************)
(* IronWorkspace and WorkspaceUpdate.                                      *)
(***************************************************************************)
VisibilityFocused == "focused"
VisibilityVisible == "visible"

IsFocused(v) == v = VisibilityFocused

OrElse(a, b) == IF a # <<>> THEN a ELSE b

UnwrapOr(a, d) == IF a # <<>> THEN a[1] ELSE d

\* ids are below 2^63 here, where `window.id as i64` keeps the value
WindowToWorkspace(window, index) ==
    [id         |-> window.id,
     index      |-> index,
     name       |-> UnwrapOr(OrElse(window.title, window.app_id), "Window"),
     monitor    |-> UnwrapOr(window.output, ""),
     visibility |-> IF window.is_focused THEN VisibilityFocused
                                         ELSE VisibilityVisible]

\* windows.iter().enumerate().map(window_to_workspace).collect()
NewWorkspaces(windows) ==
    [i \in 1..Len(windows) |-> WindowToWorkspace(windows[i], i - 1)]

Upd(type, list, w, id, name, old) ==
    [type |-> type, list |-> list, w |-> w, id |-> id, name |-> name, old |-> old]

InitUpd(list) == Upd("Init", list, <<>>, 0, "", <<>>)
AddUpd(w) == Upd("Add", <<>>, <<w>>, 0, "", <<>>)
RemoveUpd(id) == Upd("Remove", <<>>, <<>>, id, "", <<>>)
MoveUpd(w) == Upd("Move", <<>>, <<w>>, 0, "", <<>>)
RenameUpd(id, name) == Upd("Rename", <<>>, <<>>, id, name, <<>>)
FocusUpd(old, new) == Upd("Focus", <<>>, <<new>>, 0, "", old)

(***************************************************************************)
(* The diff of refresh_windows (the else branch of `if is_init`).          *)
(***************************************************************************)
\* old_state.iter().find(|w| w.id == new_w.id): the first match, or None
FindById(list, id) ==
    LET hits == { i \in 1..Len(list) : list[i].id = id }
    IN  IF hits = {} THEN <<>>
        ELSE << list[CHOOSE i \in hits : \A j \in hits : i <= j] >>

RenameCheck(old_w, new_w) ==
    IF new_w.name # old_w.name THEN << RenameUpd(new_w.id, new_w.name) >> ELSE <<>>

MoveCheck(old_w, new_w) ==
    IF new_w.index # old_w.index \/ new_w.monitor # old_w.monitor
    THEN << MoveUpd(new_w) >> ELSE <<>>

\* FocusCheck without the comparison with the old focus state
FocusCheckNoCompare(old_w, new_w) ==
    IF IsFocused(new_w.visibility) THEN << FocusUpd(<<old_w>>, new_w) >> ELSE <<>>

\* FocusCheck without the inner `if new_w.visibility.is_focused()`
FocusCheckSymmetric(old_w, new_w) ==
    IF IsFocused(new_w.visibility) # IsFocused(old_w.visibility)
    THEN << FocusUpd(<<old_w>>, new_w) >> ELSE <<>>

\* FocusCheck with `old: None`
FocusCheckOldNone(old_w, new_w) ==
    IF IsFocused(new_w.visibility) # IsFocused(old_w.visibility)
    THEN IF IsFocused(new_w.visibility)
         THEN << FocusUpd(<<>>, new_w) >> ELSE <<>>
    ELSE <<>>

FocusCheck(old_w, new_w) ==
    IF IsFocused(new_w.visibility) # IsFocused(old_w.visibility)
    THEN IF IsFocused(new_w.visibility)
         THEN << FocusUpd(<<old_w>>, new_w) >> ELSE <<>>
    ELSE <<>>

\* UpdatesForNew with the three checks chained by `else if`
UpdatesForNewElseIf(old, new_w) ==
    LET found == FindById(old, new_w.id)
    IN  IF found # <<>>
        THEN IF RenameCheck(found[1], new_w) # <<>>
             THEN RenameCheck(found[1], new_w)
             ELSE IF MoveCheck(found[1], new_w) # <<>>
                  THEN MoveCheck(found[1], new_w)
                  ELSE FocusCheck(found[1], new_w)
        ELSE << AddUpd(new_w) >>

\* UpdatesForNew that follows the Add of a focused entity by a Focus
UpdatesForNewFocusAdded(old, new_w) ==
    LET found == FindById(old, new_w.id)
    IN  IF found # <<>>
        THEN RenameCheck(found[1], new_w) \o MoveCheck(found[1], new_w)
                 \o FocusCheck(found[1], new_w)
        ELSE IF IsFocused(new_w.visibility)
             THEN << AddUpd(new_w), FocusUpd(<<>>, new_w) >>
             ELSE << AddUpd(new_w) >>

\* the body of `for new_w in &new_workspaces`
UpdatesForNew(old, new_w) ==
    LET found == FindById(old, new_w.id)
    IN  IF found # <<>>
        THEN RenameCheck(found[1], new_w) \o MoveCheck(found[1], new_w)
                 \o FocusCheck(found[1], new_w)
        ELSE << AddUpd(new_w) >>

RECURSIVE AddUpdateMove(_, _, _)
\* 1. Check for Add/Update/Move: the pushes for new[i..]
AddUpdateMove(old, new, i) ==
    IF i > Len(new) THEN <<>>
    ELSE UpdatesForNew(old, new[i]) \o AddUpdateMove(old, new, i + 1)

RECURSIVE CheckRemoveInverted(_, _, _)
\* CheckRemove without the `!` of its condition
CheckRemoveInverted(old, new, i) ==
    IF i > Len(old) THEN <<>>
    ELSE (IF \E k \in 1..Len(new) : new[k].id = old[i].id
          THEN << RemoveUpd(old[i].id) >> ELSE <<>>)
         \o CheckRemoveInverted(old, new, i + 1)

RECURSIVE CheckRemove(_, _, _)
\* 2. Check for Remove: the pushes for old[i..]
CheckRemove(old, new, i) ==
    IF i > Len(old) THEN <<>>
    ELSE (IF \E k \in 1..Len(new) : new[k].id = old[i].id
          THEN <<>> ELSE << RemoveUpd(old[i].id) >>)
         \o CheckRemove(old, new, i + 1)

\* DiffUpdates with the two loops in the other order
DiffUpdatesRemoveFirst(old, new) ==
    CheckRemove(old, new, 1) \o AddUpdateMove(old, new, 1)

DiffUpdates(old, new) == AddUpdateMove(old, new, 1) \o CheckRemove(old, new, 1)

\* ComputeUpdates that diffs on the initial refresh too
ComputeUpdatesAlwaysDiff(is_init, old, new) == DiffUpdates(old, new)

\* the updates vector refresh_windows has built when it reaches "Apply updates"
ComputeUpdates(is_init, old, new) ==
    IF is_init THEN << InitUpd(new) >> ELSE DiffUpdates(old, new)

(***************************************************************************)
(* Connection: what one request on a fresh connection can come back with.  *)
(***************************************************************************)
\* Connection::connect() and conn.send(Request::Windows) as refresh_windows
\* matches on them
WindowsReplies(lists) ==
    { [kind |-> k, windows |-> <<>>] :
        k \in {"connect_err", "send_err", "reply_err", "other_response"} }
    \cup { [kind |-> "windows", windows |-> ws] : ws \in lists }

\* Event variants; the first six are the ones `should_refresh` matches
RefreshEvents ==
    { "WindowsChanged", "WindowOpenedOrChanged", "WindowClosed",
      "WindowFocusChanged", "WorkspacesChanged", "WorkspaceActivated" }

OtherEvents == { "KeyboardLayoutsChanged", "WindowUrgencyChanged", "Other" }

\* what reader.read_line(&mut buf) on the event connection can do: fail with
\* an I/O error, read nothing or a blank line, read a line that is no Event,
\* read an encoded Event; NoRead (below) is buf between two reads
EventReads ==
    { [kind |-> k, event |-> "Other"] : k \in {"io_error", "empty", "garbage"} }
    \cup { [kind |-> "line", event |-> e] : e \in RefreshEvents \cup OtherEvents }

\* EventListener with `?` on the decode in place of unwrap_or(Event::Other)
EventListenerStrict(read) ==
    IF read.kind \in {"io_error", "empty"}
    THEN [ok |-> TRUE, event |-> "Other"]
    ELSE IF read.kind = "garbage"
         THEN [ok |-> FALSE, event |-> "Other"]
         ELSE [ok |-> TRUE, event |-> read.event]

\* the `events` closure returned by Connection::send: Result<Event>
EventListener(read) ==
    IF read.kind \in {"io_error", "empty"}
    THEN [ok |-> TRUE, event |-> "Other"]      \* unwrap_or(0), buf stays empty
    ELSE IF read.kind = "garbage"
         THEN [ok |-> TRUE, event |-> "Other"] \* from_str(..).unwrap_or(Other)
         ELSE [ok |-> TRUE, event |-> read.event]

ShouldRefresh(event) == event \in RefreshEvents

(***************************************************************************)
(* The broadcast channel.                                                  *)
(***************************************************************************)
\* tx.send_expect(update): _rx keeps the channel open, so the send succeeds
SendExpect(h, update) == Append(h, update)

\* what the receiver registered when the hub held `pos` values can receive:
\* everything sent since, but no more than the newest Capacity values
Received(h, pos) == SubSeq(h, Max(pos, Len(h) - Capacity) + 1, Len(h))

\* Readers with refresh_windows' old_state guard kept until the function
\* returns (0 stands for the dispatch task)
ReadersWithOldState ==
    { i \in 1..Len(subs) : subs[i].pc = "locked" }
        \cup (IF dpc = "write" /\ ~ isInit THEN {0} ELSE {})

\* holders of the read lock on the store (subscribe() calls between
\* read_lock! and their return)
Readers == { i \in 1..Len(subs) : subs[i].pc = "locked" }

(***************************************************************************)
(* History of the last refresh call, for stating the claims.               *)
(***************************************************************************)
NoPass == [kind |-> "none", old |-> <<>>, sent |-> <<>>]

NoRead == [kind |-> "none", event |-> "Other"]

Init ==
    /\ store = <<>>
    /\ hub = <<>>
    /\ subs = <<>>
    /\ dpc = "connect"
    /\ isInit = TRUE
    /\ newWs = <<>>
    /\ updates = <<>>
    /\ events = 0
    /\ pass = NoPass
    /\ buf = NoRead
    /\ initial = "pending"

(***************************************************************************)
(* The dispatch task (the async block of Client::new).                     *)
(***************************************************************************)
\* let mut conn = Connection::connect().await?;
TaskConnect ==
    /\ dpc = "connect"
    /\ \E ok \in BOOLEAN : dpc' = IF ok THEN "stream" ELSE "exited"
    /\ UNCHANGED <<store, hub, subs, isInit, newWs, updates, events, pass, buf,
                 initial>>

\* conn.send(Request::EventStream).await?; then the initial fetch is called
TaskEventStream ==
    /\ dpc = "stream"
    /\ \E ok \in BOOLEAN : dpc' = IF ok THEN "fetch" ELSE "exited"
    /\ isInit' = TRUE
    /\ UNCHANGED <<store, hub, subs, newWs, updates, events, pass, buf,
                 initial>>

\* `initial` once a fetch of a refresh called with is_init has gone `outcome`
InitialAfter(was, is_init, outcome) == IF is_init THEN outcome ELSE was

\* RefreshFetch that resets the store when the fetch fails
RefreshFetchClearing(lists) ==
    /\ dpc = "fetch"
    /\ \E r \in WindowsReplies(lists) :
         IF r.kind = "windows"
         THEN /\ newWs' = NewWorkspaces(r.windows)
              /\ dpc' = "diff"
              /\ pass' = [kind |-> "running", old |-> <<>>, sent |-> <<>>]
              /\ initial' = InitialAfter(initial, isInit, "ok")
              /\ store' = store
         ELSE /\ newWs' = newWs
              /\ dpc' = "listen"
              /\ pass' = [kind |-> "failed", old |-> store, sent |-> <<>>]
              /\ initial' = InitialAfter(initial, isInit, "failed")
              /\ store' = <<>>
    /\ UNCHANGED <<hub, subs, isInit, updates, events, buf>>

\* RefreshFetch that ends the task when the fetch fails (`?` on the fetch)
RefreshFetchExits(lists) ==
    /\ dpc = "fetch"
    /\ \E r \in WindowsReplies(lists) :
         IF r.kind = "windows"
         THEN /\ newWs' = NewWorkspaces(r.windows)
              /\ dpc' = "diff"
              /\ pass' = [kind |-> "running", old |-> <<>>, sent |-> <<>>]
              /\ initial' = InitialAfter(initial, isInit, "ok")
         ELSE /\ newWs' = newWs
              /\ dpc' = "exited"
              /\ pass' = [kind |-> "failed", old |-> store, sent |-> <<>>]
              /\ initial' = InitialAfter(initial, isInit, "failed")
    /\ UNCHANGED <<store, hub, subs, isInit, updates, events, buf>>

\* refresh_windows, lines 81-106: fetch the windows and convert them
RefreshFetch(lists) ==
    /\ dpc = "fetch"
    /\ \E r \in WindowsReplies(lists) :
         IF r.kind = "windows"
         THEN /\ newWs' = NewWorkspaces(r.windows)
              /\ dpc' = "diff"
              /\ pass' = [kind |-> "running", old |-> <<>>, sent |-> <<>>]
              /\ initial' = InitialAfter(initial, isInit, "ok")
         ELSE /\ newWs' = newWs
              /\ dpc' = "listen"
              /\ pass' = [kind |-> "failed", old |-> store, sent |-> <<>>]
              /\ initial' = InitialAfter(initial, isInit, "failed")
    /\ UNCHANGED <<store, hub, subs, isInit, updates, events, buf>>

\* refresh_windows, lines 108-150: build the updates (under the read lock
\* when not is_init; the lock is released at the end of the else block)
RefreshDiff ==
    /\ dpc = "diff"
    /\ updates' = ComputeUpdates(isInit, store, newWs)
    /\ dpc' = "write"
    /\ pass' = [pass EXCEPT !.old = store]
    /\ UNCHANGED <<store, hub, subs, isInit, newWs, events, buf, initial>>

AfterSend(ups) == IF ups = <<>> THEN "listen" ELSE "send"

PassKind(is_init) == IF is_init THEN "init" ELSE "diff"

\* pass once the last update is out
PassAfter(p, ups, is_init) ==
    IF ups = <<>> THEN [p EXCEPT !.kind = PassKind(is_init)] ELSE p

\* RefreshWrite that leaves the store alone when there is nothing to send
RefreshWriteIfUpdates ==
    /\ dpc = "write"
    /\ Readers = {}
    /\ store' = IF updates = <<>> THEN store ELSE newWs
    /\ dpc' = AfterSend(updates)
    /\ pass' = PassAfter(pass, updates, isInit)
    /\ UNCHANGED <<hub, subs, isInit, newWs, updates, events, buf, initial>>

\* *write_lock!(state_lock) = new_workspaces; waits for the readers to leave
RefreshWrite ==
    /\ dpc = "write"
    /\ Readers = {}
    /\ store' = newWs
    /\ dpc' = AfterSend(updates)
    /\ pass' = PassAfter(pass, updates, isInit)
    /\ UNCHANGED <<hub, subs, isInit, newWs, updates, events, buf, initial>>

\* one turn of `for update in updates { tx.send_expect(update); }`
RefreshSend ==
    /\ dpc = "send"
    /\ hub' = SendExpect(hub, Head(updates))
    /\ updates' = Tail(updates)
    /\ dpc' = AfterSend(Tail(updates))
    /\ pass' = PassAfter([pass EXCEPT !.sent = Append(@, Head(updates))],
                         Tail(updates), isInit)
    /\ UNCHANGED <<store, subs, isInit, newWs, events, buf, initial>>

\* the loop calls event_listener(): buf.clear() and the read_line into buf
ReadEvent(bound) ==
    /\ dpc = "listen"
    /\ events < bound
    /\ events' = events + 1
    /\ \E read \in EventReads : buf' = read
    /\ dpc' = "event"
    /\ UNCHANGED <<store, hub, subs, isInit, newWs, updates, pass, initial>>

\* the rest of the loop's turn: the closure's result, the match on it,
\* should_refresh and the call of refresh_windows(.., false)
HandleEvent ==
    /\ dpc = "event"
    /\ LET r == EventListener(buf)
       IN  IF ~r.ok
           THEN dpc' = "terminated" /\ isInit' = isInit
           ELSE IF ShouldRefresh(r.event)
                THEN dpc' = "fetch" /\ isInit' = FALSE
                ELSE dpc' = "listen" /\ isInit' = isInit
    /\ buf' = NoRead
    /\ UNCHANGED <<store, hub, subs, newWs, updates, events, pass, initial>>

(***************************************************************************)
(* WorkspaceClient::subscribe, on the caller's thread.                     *)
(***************************************************************************)
\* let rx = self.tx.subscribe();
SubRegister ==
    /\ Len(subs) < MaxSubs
    /\ subs' = Append(subs, [pc |-> "registered", pos |-> Len(hub), init |-> 0])
    /\ UNCHANGED <<store, hub, dpc, isInit, newWs, updates, events, pass, buf,
                 initial>>

\* let windows = read_lock!(self.windows_as_workspaces);
SubLock(i) ==
    /\ subs[i].pc = "registered"
    /\ subs' = [subs EXCEPT ![i].pc = "locked"]
    /\ UNCHANGED <<store, hub, dpc, isInit, newWs, updates, events, pass, buf,
                 initial>>

\* SubSend with `windows.len() > 1` for `!windows.is_empty()`
SubSendWhenSeveral(i) ==
    /\ subs[i].pc = "locked"
    /\ IF Len(store) > 1
       THEN /\ hub' = SendExpect(hub, InitUpd(store))
            /\ subs' = [subs EXCEPT ![i].pc = "done", ![i].init = Len(hub) + 1]
       ELSE /\ hub' = hub
            /\ subs' = [subs EXCEPT ![i].pc = "done"]
    /\ UNCHANGED <<store, dpc, isInit, newWs, updates, events, pass, buf,
                 initial>>

\* SubSend without the `if !windows.is_empty()`
SubSendAlways(i) ==
    /\ subs[i].pc = "locked"
    /\ hub' = SendExpect(hub, InitUpd(store))
    /\ subs' = [subs EXCEPT ![i].pc = "done", ![i].init = Len(hub) + 1]
    /\ UNCHANGED <<store, dpc, isInit, newWs, updates, events, pass, buf,
                 initial>>

\* SubSend that takes the list out of the store instead of cloning it
SubSendTaking(i) ==
    /\ subs[i].pc = "locked"
    /\ IF store # <<>>
       THEN /\ hub' = SendExpect(hub, InitUpd(store))
            /\ subs' = [subs EXCEPT ![i].pc = "done", ![i].init = Len(hub) + 1]
            /\ store' = <<>>
       ELSE /\ hub' = hub
            /\ subs' = [subs EXCEPT ![i].pc = "done"]
            /\ store' = store
    /\ UNCHANGED <<dpc, isInit, newWs, updates, events, pass, buf, initial>>

\* if !windows.is_empty() { send Init(windows.clone()) }; rx is returned and
\* the read lock dropped
SubSend(i) ==
    /\ subs[i].pc = "locked"
    /\ IF store # <<>>
       THEN /\ hub' = SendExpect(hub, InitUpd(store))
            /\ subs' = [subs EXCEPT ![i].pc = "done", ![i].init = Len(hub) + 1]
       ELSE /\ hub' = hub
            /\ subs' = [subs EXCEPT ![i].pc = "done"]
    /\ UNCHANGED <<store, dpc, isInit, newWs, updates, events, pass, buf,
                 initial>>

Subscribe ==
    \/ SubRegister
    \/ \E i \in 1..Len(subs) : SubLock(i)
    \/ \E i \in 1..Len(subs) : SubSend(i)

(***************************************************************************)
(* WorkspaceClient::focus, on the caller's thread: it spawns a task that   *)
(* opens a connection of its own and sends Action::FocusWindow { id }; the *)
(* task holds no reference to the store, the sender or the event stream.   *)
(***************************************************************************)
Focus(id) ==
    /\ id \in 1..MaxId
    /\ UNCHANGED vars

\* window lists of the runs with subscribers: one look, no window focused
PlainLists == WindowLists(1..MaxId, {PlainLook}, FALSE)

\* window lists of the runs of the dispatch task alone
RichLists == WindowLists(1..MaxIdAlone, Looks, TRUE)

Dispatch(lists, bound) ==
    \/ TaskConnect
    \/ TaskEventStream
    \/ RefreshFetch(lists)
    \/ RefreshDiff
    \/ RefreshWrite
    \/ RefreshSend
    \/ ReadEvent(bound)
    \/ HandleEvent

Next ==
    \/ Dispatch(PlainLists, MaxEvents)
    \/ Subscribe
    \/ \E id \in 1..MaxId : Focus(id)

Spec == Init /\ [][Next]_vars

\* the steps of the i-th subscribe() call from read_lock! on
SubStep(i) == i \in 1..Len(subs) /\ (SubLock(i) \/ SubSend(i))

\* The runtime keeps polling the dispatch task while it can go on writing
\* and sending (neither awaits), and a thread inside subscribe() runs on.
FairSpec ==
    /\ Spec
    /\ WF_vars(RefreshWrite)
    /\ WF_vars(RefreshSend)
    /\ \A i \in 1..MaxSubs : WF_vars(SubStep(i))

\* the dispatch task with no subscribe() call
NextDispatch == Dispatch(RichLists, MaxPasses)

DispatchSpec == Init /\ [][NextDispatch]_vars

(***************************************************************************)
(* Vocabulary of the claims.                                               *)
(***************************************************************************)
\* the id an update is about (0 for Init)
UpdId(u) ==
    IF u.type \in {"Remove", "Rename"} THEN u.id
    ELSE IF u.w # <<>> THEN u.w[1].id ELSE 0

IdsOf(list) == { list[i].id : i \in 1..Len(list) }

\* positions in `seq` of the updates of a type in `types` about `id`
UpdsAt(seq, types, id) ==
    { k \in 1..Len(seq) : seq[k].type \in types /\ UpdId(seq[k]) = id }

AllTypes == {"Init", "Add", "Remove", "Move", "Rename", "Focus"}

NewSideTypes == {"Add", "Rename", "Move", "Focus"}

\* position of `id` in `list`
PosOf(list, id) == CHOOSE i \in 1..Len(list) : list[i].id = id

\* a non-initial refresh has fetched, diffed, replaced the store and sent all
\* its updates: pass.old is the list it diffed against, store the one it fetched
DiffPassDone == pass.kind = "diff"

\* entity of `list` with this id (the list holds one)
EntityOf(list, id) == list[PosOf(list, id)]

\* ids matched by the diff pass
Matched == IdsOf(pass.old) \cap IdsOf(store)

\* C1: after a non-initial refresh, every id only in the fetched list has
\* exactly one Add among the updates sent, every id only in the old list has
\* exactly one Remove, and no id has both an Add and a Remove.
C1_AddRemove ==
    DiffPassDone =>
        /\ \A id \in IdsOf(store) \ IdsOf(pass.old) :
              Cardinality(UpdsAt(pass.sent, {"Add"}, id)) = 1
        /\ \A id \in IdsOf(pass.old) \ IdsOf(store) :
              Cardinality(UpdsAt(pass.sent, {"Remove"}, id)) = 1
        /\ \A id \in 1..MaxIdAlone :
              ~ (UpdsAt(pass.sent, {"Add"}, id) # {}
                 /\ UpdsAt(pass.sent, {"Remove"}, id) # {})

\* a pass that met an id only in the fetched list, an id only in the old
\* list and a matched id
C1_Witness ==
    /\ DiffPassDone
    /\ IdsOf(store) \ IdsOf(pass.old) # {}
    /\ IdsOf(pass.old) \ IdsOf(store) # {}
    /\ Matched # {}

\* C2: a non-initial refresh that fetched a list equal to the stored one
\* sends no update.
C2_Idempotent ==
    (DiffPassDone /\ pass.old = store) => pass.sent = <<>>

\* such a pass over a list of two windows, one of them focused
C2_Witness ==
    /\ DiffPassDone
    /\ pass.old = store
    /\ Len(store) = 2
    /\ \E i \in 1..2 : IsFocused(store[i].visibility)

\* C3: among the updates one non-initial refresh sends, the Add / Rename /
\* Move / Focus updates are in the order of their ids in the fetched list,
\* every Remove comes after all of them, and the Removes are in the order of
\* their ids in the old list.
C3_Ordering ==
    DiffPassDone =>
        \A k1, k2 \in 1..Len(pass.sent) :
            k1 < k2 =>
                LET u1 == pass.sent[k1]
                    u2 == pass.sent[k2]
                IN  /\ u1.type \in NewSideTypes \cup {"Remove"}
                    /\ u2.type \in NewSideTypes \cup {"Remove"}
                    /\ (u1.type \in NewSideTypes /\ u2.type \in NewSideTypes)
                         => PosOf(store, UpdId(u1)) <= PosOf(store, UpdId(u2))
                    /\ u1.type = "Remove" => u2.type = "Remove"
                    /\ (u1.type = "Remove" /\ u2.type = "Remove")
                         => PosOf(pass.old, UpdId(u1)) < PosOf(pass.old, UpdId(u2))

\* a pass that sent updates about two ids of the fetched list and then a
\* Remove
C3_Witness ==
    /\ DiffPassDone
    /\ \E k1, k2, k3 \in 1..Len(pass.sent) :
          /\ k1 < k2 /\ k2 < k3
          /\ pass.sent[k1].type \in NewSideTypes
          /\ pass.sent[k2].type \in NewSideTypes
          /\ UpdId(pass.sent[k1]) # UpdId(pass.sent[k2])
          /\ pass.sent[k3].type = "Remove"

\* the entity with this id changed in nothing but (possibly) its focus
OnlyFocusMayDiffer(id) ==
    LET old_w == EntityOf(pass.old, id)
        new_w == EntityOf(store, id)
    IN  /\ old_w.name = new_w.name
        /\ old_w.index = new_w.index
        /\ old_w.monitor = new_w.monitor

LostFocus(id) ==
    /\ IsFocused(EntityOf(pass.old, id).visibility)
    /\ ~ IsFocused(EntityOf(store, id).visibility)

GainedFocus(id) ==
    /\ ~ IsFocused(EntityOf(pass.old, id).visibility)
    /\ IsFocused(EntityOf(store, id).visibility)

\* C4: for a matched entity with no other field changed, losing the focus
\* yields no update about it in that pass, gaining the focus yields exactly
\* one update about it, a Focus.
C4_FocusAsymmetry ==
    DiffPassDone =>
        \A id \in Matched :
            OnlyFocusMayDiffer(id) =>
                /\ LostFocus(id) => UpdsAt(pass.sent, AllTypes, id) = {}
                /\ GainedFocus(id) =>
                      /\ Cardinality(UpdsAt(pass.sent, AllTypes, id)) = 1
                      /\ Cardinality(UpdsAt(pass.sent, {"Focus"}, id)) = 1

\* a pass in which the focus went from one matched entity to another, both
\* otherwise unchanged
C4_Witness ==
    /\ DiffPassDone
    /\ \E a, b \in Matched :
          /\ OnlyFocusMayDiffer(a) /\ LostFocus(a)
          /\ OnlyFocusMayDiffer(b) /\ GainedFocus(b)

\* C5: for a matched id, a Rename carrying the new name is sent exactly when
\* the name differs, a Move carrying the new entity exactly when index or
\* monitor differs, a Focus exactly when the focus was gained; each check
\* sends its own update, so name, monitor and focus changing together give
\* three updates.
C5_Independent ==
    DiffPassDone =>
        \A id \in Matched :
            LET old_w == EntityOf(pass.old, id)
                new_w == EntityOf(store, id)
                renames == UpdsAt(pass.sent, {"Rename"}, id)
                moves == UpdsAt(pass.sent, {"Move"}, id)
                focuses == UpdsAt(pass.sent, {"Focus"}, id)
            IN  /\ Cardinality(renames) = IF new_w.name # old_w.name THEN 1 ELSE 0
                /\ \A k \in renames : pass.sent[k] = RenameUpd(id, new_w.name)
                /\ Cardinality(moves) =
                      IF new_w.index # old_w.index \/ new_w.monitor # old_w.monitor
                      THEN 1 ELSE 0
                /\ \A k \in moves : pass.sent[k] = MoveUpd(new_w)
                /\ Cardinality(focuses) = IF GainedFocus(id) THEN 1 ELSE 0
                /\ UpdsAt(pass.sent, AllTypes, id) = renames \cup moves \cup focuses

\* a pass in which one matched id changed name and monitor (at the same
\* index) and gained the focus: three updates about it
C5_Witness ==
    /\ DiffPassDone
    /\ \E id \in Matched :
          LET old_w == EntityOf(pass.old, id)
              new_w == EntityOf(store, id)
          IN  /\ new_w.name # old_w.name
              /\ new_w.monitor # old_w.monitor
              /\ new_w.index = old_w.index
              /\ GainedFocus(id)
              /\ Cardinality(UpdsAt(pass.sent, AllTypes, id)) = 3

Last(seq) == seq[Len(seq)]

\* C6: a subscribe() call that finds the store non-empty sends one update,
\* Init of the stored list in its order, and every receiver registered by
\* then (the earlier ones and the call's own) has it as its newest value.
C6_SubscribeReplay ==
    [][ \A i \in 1..Len(subs) :
          (subs[i].pc = "locked" /\ subs'[i].pc = "done" /\ store # <<>>) =>
              /\ hub' = Append(hub, InitUpd(store))
              /\ \A j \in 1..Len(subs') :
                    /\ Received(hub', subs'[j].pos) # <<>>
                    /\ Last(Received(hub', subs'[j].pos)) = InitUpd(store)
      ]_vars

\* the second subscribe() call has just sent its Init of a non-empty store,
\* with the first call's receiver registered before
C6_Witness ==
    /\ Len(subs) = 2
    /\ subs[2].pc = "done"
    /\ subs[2].init = Len(hub)
    /\ subs[1].pos < subs[2].init
    /\ store # <<>>
    /\ Last(hub) = InitUpd(store)

\* C7: a refresh whose connect or request fails, or whose reply is an error
\* or no window list (it leaves the fetch without going on to the diff),
\* returns with the store as it was and nothing sent, on the initial refresh
\* and on every later one.
C7_FailedRefresh ==
    [][ (dpc = "fetch" /\ dpc' # dpc /\ dpc' # "diff") =>
            /\ store' = store
            /\ hub' = hub
            /\ subs' = subs
            /\ dpc' = "listen"
      ]_vars

\* a later refresh has failed while the store held windows and a receiver
\* was registered
C7_Witness ==
    /\ pass.kind = "failed"
    /\ events > 0
    /\ store # <<>>
    /\ Len(subs) > 0

\* C8: when the read of the next event fails with an I/O error the loop
\* ends (Terminated); from then on no refresh runs and the store keeps its
\* value.
C8_TerminatesOnIoError ==
    /\ [][ (dpc = "event" /\ buf.kind = "io_error" /\ dpc' # dpc)
              => dpc' = "terminated" ]_vars
    /\ [][ dpc = "terminated" => (dpc' = "terminated" /\ store' = store) ]_vars

C9_Triggers ==
    { "WindowsChanged", "WindowOpenedOrChanged", "WindowClosed",
      "WindowFocusChanged", "WorkspacesChanged", "WorkspaceActivated" }

\* C9: the loop starts a (non-initial) refresh exactly when the event read
\* is one of the six triggering events; after any other event, an empty
\* read or an undecodable line it goes back to listening with the store,
\* the hub and the receivers unchanged.
C9_RefreshTriggers ==
    [][ (dpc = "event" /\ dpc' # dpc) =>
            IF buf.kind = "line" /\ buf.event \in C9_Triggers
            THEN dpc' = "fetch" /\ ~ isInit'
            ELSE /\ dpc' = "listen"
                 /\ store' = store
                 /\ hub' = hub
                 /\ subs' = subs
      ]_vars

\* after a successful initial refresh an event was read that started no
\* refresh, and the loop is listening again
C9_Witness ==
    /\ dpc = "listen"
    /\ events > 0
    /\ pass.kind = "init"
    /\ store # <<>>

\* C10: an initial refresh whose fetch succeeded has sent exactly one
\* update, Init of the fetched list.
C10_InitOnly ==
    pass.kind = "init" => pass.sent = << InitUpd(newWs) >>

\* the initial refresh has fetched two windows and is done
C10_Witness ==
    /\ pass.kind = "init"
    /\ Len(newWs) = 2
    /\ store = newWs

\* C11: whenever no refresh is between its fetch and its write, the store is
\* the list of the last fetch that succeeded (empty before the first one),
\* in the order fetched (position i holds index i - 1); the store is
\* replaced also by a refresh that sends no update.
C11_StoreIsLastFetched ==
    /\ dpc \notin {"diff", "write"} => store = newWs
    /\ \A i \in 1..Len(store) : store[i].index = i - 1

\* a non-initial refresh sent nothing and yet replaced the store: an entity
\* lost the focus and nothing else changed
C11_Witness ==
    /\ DiffPassDone
    /\ pass.sent = <<>>
    /\ store # pass.old
    /\ store = newWs
    /\ \E id \in Matched : LostFocus(id)

\* C12: the store changes only in the dispatch task's write step; an event
\* is pulled only while no refresh is in progress, the initial refresh and
\* every triggered one having returned (nothing left to send, the store
\* equal to the last list fetched); steps of subscribe() and focus() leave
\* the store as it is.
C12_SoleWriter ==
    [][ /\ store' # store =>
              /\ dpc = "write" /\ dpc' \in {"send", "listen"}
              /\ store' = newWs
              /\ subs' = subs
        /\ events' # events =>
              /\ dpc = "listen"
              /\ updates = <<>>
              /\ pass.kind \in {"init", "diff", "failed"}
              /\ store = newWs
        /\ subs' # subs => store' = store ]_vars

\* two subscribe() calls have returned and, after them, a triggered refresh
\* replaced a non-empty store by another list
C12_Witness ==
    /\ DiffPassDone
    /\ pass.old # <<>>
    /\ store # pass.old
    /\ Len(subs) = MaxSubs
    /\ \A i \in 1..Len(subs) : subs[i].pc = "done" /\ subs[i].init > 0

\* the Focus updates the current refresh has sent
FocusSent == { k \in 1..Len(pass.sent) : pass.sent[k].type = "Focus" }

\* C13: every Focus update sent carries old = Some(old_w), old_w being the
\* entity of the same id as it was in the list diffed against: not focused,
\* while the new entity is focused.
C13_FocusOld ==
    \A k \in FocusSent :
        LET u == pass.sent[k]
        IN  /\ Len(u.old) = 1
            /\ Len(u.w) = 1
            /\ u.old[1].id = u.w[1].id
            /\ ~ IsFocused(u.old[1].visibility)
            /\ IsFocused(u.w[1].visibility)
            /\ u.w[1].id \in IdsOf(pass.old)
            /\ u.old[1] = EntityOf(pass.old, u.w[1].id)
            /\ u.w[1] \in { newWs[i] : i \in 1..Len(newWs) }

\* the focus moved from one matched entity to another: a Focus was sent for
\* the one that gained it while the other, still listed, was the focused one
C13_Witness ==
    /\ DiffPassDone
    /\ FocusSent # {}
    /\ \E a, b \in Matched :
          /\ a # b
          /\ LostFocus(a)
          /\ GainedFocus(b)
          /\ UpdsAt(pass.sent, {"Focus"}, b) # {}

\* ids of the fetched list with no match in the list diffed against
Unmatched == IdsOf(store) \ IdsOf(pass.old)

\* the focus went from a matched entity to an unmatched one, and nothing
\* else changed: no entity removed, the matched ones as they were but for
\* the focus
FocusMovedToAdded(b) ==
    /\ IdsOf(pass.old) \subseteq IdsOf(store)
    /\ Unmatched = {b}
    /\ IsFocused(EntityOf(store, b).visibility)
    /\ \A a \in Matched : OnlyFocusMayDiffer(a)
    /\ \E a \in Matched : LostFocus(a)

\* C14: a non-initial refresh sends exactly one update about an id with no
\* match in the old list, the Add of the new entity, focused or not; when
\* the focus moved from a matched entity to the one added and nothing else
\* changed, that Add is all the refresh sends.
C14_UnmatchedOnlyAdd ==
    DiffPassDone =>
        /\ \A id \in Unmatched :
              LET ups == UpdsAt(pass.sent, AllTypes, id)
              IN  /\ Cardinality(ups) = 1
                  /\ \A k \in ups : pass.sent[k] = AddUpd(EntityOf(store, id))
        /\ \A b \in Unmatched :
              FocusMovedToAdded(b) => pass.sent = << AddUpd(EntityOf(store, b)) >>

\* the refresh met the focused entity unfocused and a new, focused one
C14_Witness ==
    /\ DiffPassDone
    /\ \E b \in Unmatched : FocusMovedToAdded(b)
    /\ Len(pass.sent) = 1

\* C15: a step of subscribe() taken while the store is empty sends nothing
\* and leaves the store empty: tx.subscribe() registers a receiver that has
\* received nothing, and the call returns having sent no Init, every
\* receiver (the new one and the earlier ones) having received what it had.
C15_SubscribeEmpty ==
    [][ (subs' # subs /\ store = <<>>) =>
          /\ hub' = hub
          /\ store' = <<>>
          /\ Len(subs') > Len(subs) =>
                /\ Len(subs') = Len(subs) + 1
                /\ Received(hub', Last(subs').pos) = <<>>
          /\ \A i \in 1..Len(subs) :
                (subs[i].pc = "locked" /\ subs'[i].pc = "done") =>
                    /\ subs'[i].init = 0
                    /\ \A j \in 1..Len(subs) :
                          Received(hub', subs'[j].pos) = Received(hub, subs[j].pos)
      ]_vars

\* the initial refresh fetched no window and sent Init of the empty list to
\* the first receiver; the second subscribe() call, made after it, has
\* returned with nothing sent
C15_Witness ==
    /\ Len(subs) = 2
    /\ store = <<>>
    /\ pass.kind = "init"
    /\ hub = << InitUpd(<<>>) >>
    /\ subs[1].pos = 0
    /\ subs[1].pc = "done"
    /\ subs[2].pos = 1
    /\ subs[2].pc = "done"
    /\ subs[2].init = 0
    /\ Received(hub, subs[2].pos) = <<>>

\* the values sent after position `from` and before position k hold no Init
\* and no update of type `type` about `id`
NoneBetween(from, k, type, id) ==
    \A m \in (from + 1)..(k - 1) :
        /\ hub[m].type # "Init"
        /\ ~ (hub[m].type = type /\ UpdId(hub[m]) = id)

\* C16: for every subscribe() call that sent an Init, no later update (up
\* to the next Init) is an Add of an id listed in that Init with no Remove
\* of the id in between, nor a Remove of an id not listed in it with no Add
\* of the id in between.
C16_StreamConsistent ==
    \A i \in 1..Len(subs) :
        subs[i].init > 0 =>
            \A k \in (subs[i].init + 1)..Len(hub) :
                LET listed == IdsOf(hub[subs[i].init].list)
                    u == hub[k]
                IN  /\ ~ ( /\ u.type = "Add"
                           /\ UpdId(u) \in listed
                           /\ NoneBetween(subs[i].init, k, "Remove", UpdId(u)) )
                    /\ ~ ( /\ u.type = "Remove"
                           /\ UpdId(u) \notin listed
                           /\ NoneBetween(subs[i].init, k, "Add", UpdId(u)) )

\* C17: the first update ever sent is an Init, whatever the outcomes of the
\* initial and the later fetches.
C17_InitFirst ==
    hub # <<>> => hub[1].type = "Init"

\* C18: the dispatch task ends early only out of its connect or its
\* event-stream request; once it has, it stays ended, no refresh has been
\* attempted (no fetch, no event read), the store is empty and nothing has
\* been sent, by it or by the subscribe() calls that find the store empty.
C18_EarlyExit ==
    /\ [](dpc = "exited" =>
            /\ store = <<>>
            /\ hub = <<>>
            /\ pass = NoPass
            /\ initial = "pending"
            /\ newWs = <<>>
            /\ updates = <<>>
            /\ events = 0)
    /\ [][ /\ dpc = "exited" => dpc' = "exited"
           /\ (dpc # "exited" /\ dpc' = "exited") => dpc \in {"connect", "stream"}
         ]_vars

\* the task has ended early and every subscribe() call has returned, none
\* of them having sent an Init
C18_Witness ==
    /\ dpc = "exited"
    /\ store = <<>>
    /\ hub = <<>>
    /\ Len(subs) = MaxSubs
    /\ \A i \in 1..Len(subs) : subs[i].pc = "done" /\ subs[i].init = 0

\* C19: a refresh that has computed its updates (its read lock released) and
\* waits for the write lock eventually gets it, replaces the store and
\* sends all its updates, whatever subscribe() calls run beside it.
C19_WriteEventually ==
    (dpc = "write") ~>
        (dpc = "listen" /\ updates = <<>> /\ store = newWs
            /\ pass.kind \in {"init", "diff"})

\* a triggered refresh asks for the write lock while a subscribe() call
\* holds the read lock and another has not taken it yet
C19_Witness ==
    /\ dpc = "write"
    /\ ~ isInit
    /\ updates # <<>>
    /\ Len(subs) = 2
    /\ \E i, j \in 1..Len(subs) :
          subs[i].pc = "locked" /\ subs[j].pc = "registered"

====
